---- MODULE Spec2Model ----
(***************************************************************************)
(* Conway's Game of Life (src/main.rs): the boolean grid, the double       *)
(* buffered generation step, the input handlers and the main loop.         *)
(*                                                                         *)
(* A BoolGrid2D is a record [array, width, height]; array is the Vec<bool> *)
(* as a sequence, so Rust's array[i] is array[i + 1] here.  An index past  *)
(* the end of the Vec panics (Rust's slice bounds check); the panic aborts *)
(* the program, which the model records in the field "panicked".           *)
(* Time values are sfml Time values in milliseconds.                       *)
(***************************************************************************)
EXTENDS Integers, Sequences, FiniteSets, TLC

VARIABLES
    grid,                     \* Game.grid
    simulation_grid,          \* Game.simulation_grid
    paused,                   \* Game.paused
    panicked,                 \* the process was aborted by a panic
    last,                     \* history: the operation that ran last
    pre,                      \* history: the Game as it was before that operation
    pc,                       \* position inside update() or inside main's loop
    cur,                      \* position of update()'s loops: <<x, y>>
    window_open,              \* window.is_open()
    elapsed_since_last_tick,  \* main's accumulator
    total_elapsed,            \* history: sum of all clock.restart() values
    updates,                  \* history: number of game.update() calls made by main
    frames,                   \* history: number of completed iterations of main's loop
    start,                    \* history: the grid the run started from
    gen                       \* history: number of generations computed by update()

vars == <<grid, simulation_grid, paused, panicked, last, pre, pc, cur,
          window_open, elapsed_since_last_tick, total_elapsed, updates, frames,
          start, gen>>

gameVars == <<grid, simulation_grid, paused, panicked>>
loopVars == <<window_open, elapsed_since_last_tick, total_elapsed, updates, frames>>
ruleVars == <<start, gen>>

----------------------------------------------------------------------------
(* Bounds of the model *)

\* largest width*height of the grids of Spec and SpecPass
MaxArea == 6
\* largest width*height of the grids of SpecRule
MaxCells == 9
\* generations computed in SpecRule
MaxGen == 4
\* largest cell coordinate handed to toggle_cell or clicked on
MaxCoord == 3

\* Game::new: cell_size is 10.0 x 10.0
cell_size == 10

Sizes(n) == {s \in (0..n) \X (0..n) : s[1] * s[2] <= n}

Arrays(n) == [1..n -> BOOLEAN]

----------------------------------------------------------------------------
(* BoolGrid2D *)

BoolGrid2D_new_square(width, height) ==
    [array |-> [i \in 1..(width * width) |-> FALSE], width |-> width, height |-> height]

BoolGrid2D_new(width, height) ==
    [array |-> [i \in 1..(width * height) |-> FALSE], width |-> width, height |-> height]

get_index_by_height(g, x, y) == x + y * g.height

get_index(g, x, y) == x + y * g.width

\* the bounds check of Vec's index operator: array[index] panics unless index < len
in_array(g, x, y) == get_index(g, x, y) < Len(g.array)

\* the value read; a read outside the array panics instead (see in_array)
get(g, x, y) ==
    IF in_array(g, x, y) THEN g.array[get_index(g, x, y) + 1] ELSE FALSE

set(g, x, y, val) ==
    IF in_array(g, x, y) THEN [g EXCEPT !.array[get_index(g, x, y) + 1] = val] ELSE g

----------------------------------------------------------------------------
(* Game *)

Game == [grid |-> grid, simulation_grid |-> simulation_grid,
         paused |-> paused, panicked |-> panicked]

SetGame(g) ==
    /\ grid' = g.grid
    /\ simulation_grid' = g.simulation_grid
    /\ paused' = g.paused
    /\ panicked' = g.panicked

IsGame(g) ==
    /\ grid = g.grid
    /\ simulation_grid = g.simulation_grid
    /\ paused = g.paused
    /\ panicked = g.panicked

Game_new(width, height) ==
    [grid |-> BoolGrid2D_new(width, height),
     simulation_grid |-> BoolGrid2D_new(width, height),
     paused |-> FALSE, panicked |-> FALSE]

\* f32 -> usize "as" cast: saturating, a negative value becomes 0
as_usize(v) == IF v < 0 THEN 0 ELSE v

\* (position / cell_size).floor() as usize, per axis
get_cell_below_position(position) ==
    [x |-> as_usize(position.x \div cell_size),
     y |-> as_usize(position.y \div cell_size)]

toggle_cell_scratch(game, position) ==
    IF ~in_array(game.grid, position.x, position.y)
    THEN [game EXCEPT !.panicked = TRUE]
    ELSE [game EXCEPT !.simulation_grid =
              set(game.simulation_grid, position.x, position.y,
                  ~get(game.grid, position.x, position.y))]

\* grid.get(x, y) panics first when the index is outside the array
toggle_cell(game, position) ==
    IF ~in_array(game.grid, position.x, position.y)
    THEN [game EXCEPT !.panicked = TRUE]
    ELSE [game EXCEPT !.grid =
              set(game.grid, position.x, position.y,
                  ~get(game.grid, position.x, position.y))]

B2I(b) == IF b THEN 1 ELSE 0

get_neighbors_count_no_bottom_left(game, x, y) ==
    LET g == game.grid
        grid_width == g.width
        grid_height == g.height
    IN  B2I(y # 0 /\ get(g, x, y - 1))
      + B2I(y # grid_height - 1 /\ get(g, x, y + 1))
      + B2I(x # grid_width - 1 /\ get(g, x + 1, y))
      + B2I(x # 0 /\ get(g, x - 1, y))
      + B2I(x # 0 /\ y # 0 /\ get(g, x - 1, y - 1))
      + B2I(x # grid_width - 1 /\ y # 0 /\ get(g, x + 1, y - 1))
      + B2I(x # grid_width - 1 /\ y # grid_height - 1 /\ get(g, x + 1, y + 1))

\* the eight neighbours taken modulo the grid size
get_neighbors_count_wrap(game, x, y) ==
    LET g == game.grid
        W == g.width
        H == g.height
        at(dx, dy) == B2I(get(g, (x + dx + W) % W, (y + dy + H) % H))
    IN  at(0, -1) + at(0, 1) + at(1, 0) + at(-1, 0)
      + at(-1, -1) + at(1, -1) + at(1, 1) + at(-1, 1)

get_neighbors_count(game, x, y) ==
    LET g == game.grid
        grid_width == g.width
        grid_height == g.height
    IN  B2I(y # 0 /\ get(g, x, y - 1))
      + B2I(y # grid_height - 1 /\ get(g, x, y + 1))
      + B2I(x # grid_width - 1 /\ get(g, x + 1, y))
      + B2I(x # 0 /\ get(g, x - 1, y))
      + B2I(x # 0 /\ y # 0 /\ get(g, x - 1, y - 1))
      + B2I(x # grid_width - 1 /\ y # 0 /\ get(g, x + 1, y - 1))
      + B2I(x # grid_width - 1 /\ y # grid_height - 1 /\ get(g, x + 1, y + 1))
      + B2I(x # 0 /\ y # grid_height - 1 /\ get(g, x - 1, y + 1))

apply_simulation_grid(game) ==
    [game EXCEPT !.grid.array = game.simulation_grid.array]

is_going_to_live_only_two(game, x, y) ==
    LET is_alive == get(game.grid, x, y)
        neighbors_count == get_neighbors_count(game, x, y)
    IN  IF is_alive
        THEN neighbors_count = 2
        ELSE neighbors_count = 3

\* the body of update()'s inner loop for the cell (x, y)
is_going_to_live(game, x, y) ==
    LET is_alive == get(game.grid, x, y)
        neighbors_count == get_neighbors_count(game, x, y)
    IN  IF is_alive
        THEN IF neighbors_count < 2 THEN FALSE
             ELSE IF neighbors_count = 2 \/ neighbors_count = 3 THEN TRUE
             ELSE FALSE
        ELSE neighbors_count = 3

update_cell_in_place(game, x, y) ==
    [game EXCEPT !.grid = set(game.grid, x, y, is_going_to_live(game, x, y))]

update_cell(game, x, y) ==
    [game EXCEPT !.simulation_grid =
        set(game.simulation_grid, x, y, is_going_to_live(game, x, y))]

\* for x in x..grid.width, in the row y
RECURSIVE update_row(_, _, _)
update_row(game, x, y) ==
    IF x >= game.grid.width THEN game
    ELSE update_row(update_cell(game, x, y), x + 1, y)

\* the rows but the last one
RECURSIVE update_rows_skip_last(_, _)
update_rows_skip_last(game, y) ==
    IF y >= game.grid.height - 1 THEN game
    ELSE update_rows_skip_last(update_row(game, 0, y), y + 1)

\* for y in y..grid.height
RECURSIVE update_rows(_, _)
update_rows(game, y) ==
    IF y >= game.grid.height THEN game
    ELSE update_rows(update_row(game, 0, y), y + 1)

update_ignoring_pause(game) == apply_simulation_grid(update_rows(game, 0))

update(game) ==
    IF game.paused THEN game
    ELSE apply_simulation_grid(update_rows(game, 0))

\* the cells get_neighbors_count(x, y) passes to grid.get: the right side of
\* an && is evaluated only when its left side holds
get_neighbors_count_gets_unguarded_top(game, x, y) ==
    LET grid_width == game.grid.width
        grid_height == game.grid.height
    IN  {<<x, y - 1>>}
        \cup (IF y # grid_height - 1 THEN {<<x, y + 1>>} ELSE {})
        \cup (IF x # grid_width - 1 THEN {<<x + 1, y>>} ELSE {})
        \cup (IF x # 0 THEN {<<x - 1, y>>} ELSE {})
        \cup (IF x # 0 /\ y # 0 THEN {<<x - 1, y - 1>>} ELSE {})
        \cup (IF x # grid_width - 1 /\ y # 0 THEN {<<x + 1, y - 1>>} ELSE {})
        \cup (IF x # grid_width - 1 /\ y # grid_height - 1 THEN {<<x + 1, y + 1>>} ELSE {})
        \cup (IF x # 0 /\ y # grid_height - 1 THEN {<<x - 1, y + 1>>} ELSE {})

get_neighbors_count_gets(game, x, y) ==
    LET grid_width == game.grid.width
        grid_height == game.grid.height
    IN  (IF y # 0 THEN {<<x, y - 1>>} ELSE {})
        \cup (IF y # grid_height - 1 THEN {<<x, y + 1>>} ELSE {})
        \cup (IF x # grid_width - 1 THEN {<<x + 1, y>>} ELSE {})
        \cup (IF x # 0 THEN {<<x - 1, y>>} ELSE {})
        \cup (IF x # 0 /\ y # 0 THEN {<<x - 1, y - 1>>} ELSE {})
        \cup (IF x # grid_width - 1 /\ y # 0 THEN {<<x + 1, y - 1>>} ELSE {})
        \cup (IF x # grid_width - 1 /\ y # grid_height - 1 THEN {<<x + 1, y + 1>>} ELSE {})
        \cup (IF x # 0 /\ y # grid_height - 1 THEN {<<x - 1, y + 1>>} ELSE {})

\* the values of the usize subtractions get_neighbors_count(x, y) evaluates, as
\* integers: grid_height - 1 and grid_width - 1 in its unguarded comparisons,
\* x - 1 and y - 1 in the arguments of the gets it makes
get_neighbors_count_subs(game, x, y) ==
    {game.grid.height - 1, game.grid.width - 1}
        \cup (IF y # 0 THEN {y - 1} ELSE {})
        \cup (IF x # 0 THEN {x - 1} ELSE {})

\* the (x, y) of update()'s loops: 0..grid.height by 0..grid.width
update_cells(game) ==
    IF game.paused THEN {}
    ELSE {<<x, y>> : x \in 0..(game.grid.width - 1), y \in 0..(game.grid.height - 1)}

\* the cells update() reads from grid, itself and through get_neighbors_count
update_gets(game) ==
    update_cells(game)
        \cup UNION {get_neighbors_count_gets(game, c[1], c[2]) : c \in update_cells(game)}

\* the cells update() writes in simulation_grid
update_sets(game) == update_cells(game)

\* the values of the usize subtractions update() evaluates
update_subs(game) ==
    UNION {get_neighbors_count_subs(game, c[1], c[2]) : c \in update_cells(game)}

\* the cells draw() reads from grid
draw_gets(game) ==
    {<<x, y>> : x \in 0..(game.grid.width - 1), y \in 0..(game.grid.height - 1)}

\* the events main polls: a mouse press at a pixel, a key press, Closed, any other
MouseButtonPressed(x, y) == [type |-> "MouseButtonPressed", x |-> x, y |-> y]
KeyPressed(code) == [type |-> "KeyPressed", code |-> code]

\* window.map_pixel_to_coords(pixel, view): the view is the rectangle (0, 0) to
\* (400, 400) shown on the whole 400 x 400 window, one unit per pixel
map_pixel_to_coords(x, y) == [x |-> x, y |-> y]

process_event_any_key(game, event) ==
    IF event.type = "MouseButtonPressed"
    THEN toggle_cell(game, get_cell_below_position(map_pixel_to_coords(event.x, event.y)))
    ELSE IF event.type = "KeyPressed"
    THEN [game EXCEPT !.paused = ~game.paused]
    ELSE game

process_event(game, event) ==
    IF event.type = "MouseButtonPressed"
    THEN toggle_cell(game, get_cell_below_position(map_pixel_to_coords(event.x, event.y)))
    ELSE IF event.type = "KeyPressed"
    THEN IF event.code = "Space" THEN [game EXCEPT !.paused = ~game.paused] ELSE game
    ELSE game

----------------------------------------------------------------------------
(* Inputs *)

Coords == 0..MaxCoord

\* pixels: one left of the window, and the middle of each cell column or row
Pixels == {-1} \cup {c * cell_size + 5 : c \in Coords}

Keys == {"Space", "Enter"}

Events ==
    {MouseButtonPressed(x, y) : x \in Pixels, y \in Pixels}
    \cup {KeyPressed(code) : code \in Keys}
    \cup {[type |-> "Closed"], [type |-> "MouseMoved"]}

----------------------------------------------------------------------------
(* Spec: the Game object under any sequence of calls of its methods *)

\* everything but the Game: nothing has run yet
InitRest ==
    /\ last = "new"
    /\ pre = <<>>
    /\ pc = "idle"
    /\ cur = <<0, 0>>
    /\ window_open = TRUE
    /\ elapsed_since_last_tick = 0
    /\ total_elapsed = 0
    /\ updates = 0
    /\ frames = 0
    /\ start = grid
    /\ gen = 0

Init ==
    /\ \E s \in Sizes(MaxArea) : IsGame(Game_new(s[1], s[2]))
    /\ InitRest

ToggleCell(x, y) ==
    /\ ~panicked
    /\ SetGame(toggle_cell(Game, [x |-> x, y |-> y]))
    /\ last' = "toggle_cell"
    /\ UNCHANGED <<pre, pc, cur, loopVars, ruleVars>>

ProcessEvent(event) ==
    /\ ~panicked
    /\ SetGame(process_event(Game, event))
    /\ last' = "process_event"
    /\ UNCHANGED <<pre, pc, cur, loopVars, ruleVars>>

Update ==
    /\ ~panicked
    /\ SetGame(update(Game))
    /\ last' = "update"
    /\ UNCHANGED <<pre, pc, cur, loopVars, ruleVars>>

Next ==
    \/ \E x \in Coords, y \in Coords : ToggleCell(x, y)
    \/ \E event \in Events : ProcessEvent(event)
    \/ Update

Spec == Init /\ [][Next]_vars

----------------------------------------------------------------------------
(* SpecRule: update() and the pause key on every grid of at most MaxCells  *)
(* cells, with the Game before the call kept in pre                        *)

InitRule ==
    /\ \E s \in Sizes(MaxCells) : \E a \in Arrays(s[1] * s[2]) : \E p \in BOOLEAN :
          IsGame([Game_new(s[1], s[2]) EXCEPT !.grid.array = a, !.paused = p])
    /\ InitRest

RuleUpdate ==
    /\ ~panicked
    /\ paused \/ gen < MaxGen
    /\ pre' = Game
    /\ SetGame(update(Game))
    /\ last' = "update"
    /\ gen' = IF paused THEN gen ELSE gen + 1
    /\ UNCHANGED <<pc, cur, loopVars, start>>

RulePause ==
    /\ ~panicked
    /\ pre' = Game
    /\ SetGame(process_event(Game, KeyPressed("Space")))
    /\ last' = "process_event"
    /\ UNCHANGED <<pc, cur, loopVars, ruleVars>>

NextRule == RuleUpdate \/ RulePause

SpecRule == InitRule /\ [][NextRule]_vars

----------------------------------------------------------------------------
(* SpecPass: update() cell by cell, one step per iteration of its inner    *)
(* loop, from every content of the two grids                               *)

InitPass ==
    /\ \E s \in Sizes(MaxArea) :
       \E a \in Arrays(s[1] * s[2]) : \E b \in Arrays(s[1] * s[2]) : \E p \in BOOLEAN :
          IsGame([Game_new(s[1], s[2]) EXCEPT
                     !.grid.array = a, !.simulation_grid.array = b, !.paused = p])
    /\ InitRest

\* the loops leaving out the last row
CellsLeft_skip_last == grid.width > 0 /\ cur[2] < grid.height - 1

\* some iteration of the loops is left at cur
CellsLeft == grid.width > 0 /\ cur[2] < grid.height

\* update() is called: return at once when paused, else start the loops
UpdateEnter ==
    /\ pc = "idle"
    /\ ~panicked
    /\ pre' = Game
    /\ last' = "update"
    /\ pc' = IF paused THEN "idle" ELSE "loop"
    /\ cur' = <<0, 0>>
    /\ UNCHANGED <<gameVars, loopVars, ruleVars>>

\* one iteration of the inner loop, then on to the next x, or the next y
UpdateCell ==
    /\ pc = "loop"
    /\ CellsLeft
    /\ SetGame(update_cell(Game, cur[1], cur[2]))
    /\ cur' = IF cur[1] + 1 < grid.width THEN <<cur[1] + 1, cur[2]>>
                                          ELSE <<0, cur[2] + 1>>
    /\ UNCHANGED <<last, pre, pc, loopVars, ruleVars>>

\* the loops are over: apply_simulation_grid(), and update() returns
UpdateCommit ==
    /\ pc = "loop"
    /\ ~CellsLeft
    /\ SetGame(apply_simulation_grid(Game))
    /\ pc' = "idle"
    /\ UNCHANGED <<last, pre, cur, loopVars, ruleVars>>

NextPass == UpdateEnter \/ UpdateCell \/ UpdateCommit

SpecPass == InitPass /\ [][NextPass]_vars

----------------------------------------------------------------------------
(* SpecMain: main's loop.  The 40 x 40 grid of main is scaled down to      *)
(* main_size, and the loop is cut after MaxFrames iterations.              *)

\* iterations of main's loop
MaxFrames == 4

\* Game::new(40, 40), scaled down
main_size == <<2, 2>>

\* Time::seconds(0.2)
tick_duration == 200

\* what clock.restart() can return: a frame shorter than the tick and one longer
\* than two ticks (the frame rate limit of 30 keeps a frame above 33 ms)
FrameDurations == {100, 500}

InitMain ==
    /\ IsGame(Game_new(main_size[1], main_size[2]))
    /\ last = "new"
    /\ pre = <<>>
    /\ pc = "while"
    /\ cur = <<0, 0>>
    /\ window_open = TRUE
    /\ elapsed_since_last_tick = 0
    /\ total_elapsed = 0
    /\ updates = 0
    /\ frames = 0
    /\ start = grid
    /\ gen = 0

\* while window.is_open()
MainWhile ==
    /\ pc = "while"
    /\ ~panicked
    /\ pc' = IF window_open THEN "poll" ELSE "exit"
    /\ window_open => frames < MaxFrames
    /\ UNCHANGED <<gameVars, last, pre, cur, loopVars, ruleVars>>

\* events handled wherever the loop is, not only in the poll loop
MainPollEvent_any_time(event) ==
    /\ pc \in {"poll", "draw"}
    /\ ~panicked
    /\ window_open
    /\ SetGame(process_event(Game, event))
    /\ window_open' = (event.type # "Closed")
    /\ last' = "process_event"
    /\ UNCHANGED <<pre, pc, cur, elapsed_since_last_tick, total_elapsed, updates, frames, ruleVars>>

\* poll_event() returns an event: process_event, and Closed closes the window
MainPollEvent(event) ==
    /\ pc = "poll"
    /\ ~panicked
    /\ window_open
    /\ SetGame(process_event(Game, event))
    /\ window_open' = (event.type # "Closed")
    /\ last' = "process_event"
    /\ UNCHANGED <<pre, pc, cur, elapsed_since_last_tick, total_elapsed, updates, frames, ruleVars>>

\* poll_event() returns None (as it does once the window is closed)
MainPollNone ==
    /\ pc = "poll"
    /\ ~panicked
    /\ pc' = "tick"
    /\ UNCHANGED <<gameVars, last, pre, cur, loopVars, ruleVars>>

\* the tick check, keeping the accumulated time while the game is paused
MainTick_keep_when_paused ==
    /\ pc = "tick"
    /\ IF elapsed_since_last_tick > tick_duration
       THEN /\ elapsed_since_last_tick' =
                  IF paused THEN elapsed_since_last_tick
                            ELSE elapsed_since_last_tick - tick_duration
            /\ SetGame(update(Game))
            /\ updates' = updates + 1
            /\ last' = "update"
       ELSE UNCHANGED <<gameVars, elapsed_since_last_tick, updates, last>>
    /\ pc' = "draw"
    /\ UNCHANGED <<pre, cur, window_open, total_elapsed, frames, ruleVars>>

\* if elapsed_since_last_tick > tick_duration { ... game.update() }
MainTick ==
    /\ pc = "tick"
    /\ IF elapsed_since_last_tick > tick_duration
       THEN /\ elapsed_since_last_tick' = elapsed_since_last_tick - tick_duration
            /\ SetGame(update(Game))
            /\ updates' = updates + 1
            /\ last' = "update"
       ELSE UNCHANGED <<gameVars, elapsed_since_last_tick, updates, last>>
    /\ pc' = "draw"
    /\ UNCHANGED <<pre, cur, window_open, total_elapsed, frames, ruleVars>>

\* window.clear(); game.draw(); window.display()
MainDraw ==
    /\ pc = "draw"
    /\ pc' = "restart"
    /\ UNCHANGED <<gameVars, last, pre, cur, loopVars, ruleVars>>

\* elapsed = clock.restart(); elapsed_since_last_tick += elapsed
MainRestart(elapsed) ==
    /\ pc = "restart"
    /\ elapsed_since_last_tick' = elapsed_since_last_tick + elapsed
    /\ total_elapsed' = total_elapsed + elapsed
    /\ frames' = frames + 1
    /\ pc' = "while"
    /\ UNCHANGED <<gameVars, last, pre, cur, window_open, updates, ruleVars>>

NextMain ==
    \/ MainWhile
    \/ \E event \in Events : MainPollEvent(event)
    \/ MainPollNone
    \/ MainTick
    \/ MainDraw
    \/ \E elapsed \in FrameDurations : MainRestart(elapsed)

SpecMain == InitMain /\ [][NextMain]_vars

----------------------------------------------------------------------------
(* The rule of the Game of Life, stated on cells and not on the array *)

Cells(g) == (0..(g.width - 1)) \X (0..(g.height - 1))

\* the cell (x, y) of g, at its place x + y*W of the flat array
AliveAt(g, x, y) == g.array[x + y * g.width + 1]

AliveSet(g) == {c \in Cells(g) : AliveAt(g, c[1], c[2])}

\* the up-to-8 cells of the grid next to (x, y)
Adjacent(g, x, y) ==
    {c \in Cells(g) : /\ c # <<x, y>>
                      /\ c[1] - x \in -1..1
                      /\ c[2] - y \in -1..1}

AliveNeighbours(g, x, y) ==
    Cardinality({c \in Adjacent(g, x, y) : AliveAt(g, c[1], c[2])})

ClassicRule(g, x, y) ==
    \/ AliveAt(g, x, y) /\ AliveNeighbours(g, x, y) \in {2, 3}
    \/ ~AliveAt(g, x, y) /\ AliveNeighbours(g, x, y) = 3

SameShape(g, h) ==
    /\ g.width = h.width
    /\ g.height = h.height
    /\ Len(g.array) = Len(h.array)

----------------------------------------------------------------------------
(* Claims, SpecRule *)

\* C1: after an update() made while not paused, each cell (x, y) of the grid is
\* alive exactly when the classic rule says so on the grid before the call:
\* alive with 2 or 3 alive neighbours, or dead with exactly 3, the neighbours
\* being the adjacent cells inside the grid.
C1_UpdateIsClassicRule ==
    (last = "update" /\ ~pre.paused) =>
        /\ SameShape(grid, pre.grid)
        /\ \A c \in Cells(pre.grid) :
              AliveAt(grid, c[1], c[2]) <=> ClassicRule(pre.grid, c[1], c[2])

\* a running update() on a grid with a death by overcrowding, a death by
\* isolation, a survival and a birth
C1_Witness ==
    /\ last = "update"
    /\ ~pre.paused
    /\ \E c \in Cells(pre.grid) :
          AliveAt(pre.grid, c[1], c[2]) /\ AliveNeighbours(pre.grid, c[1], c[2]) > 3
    /\ \E c \in Cells(pre.grid) :
          AliveAt(pre.grid, c[1], c[2]) /\ AliveNeighbours(pre.grid, c[1], c[2]) < 2
    /\ \E c \in Cells(pre.grid) :
          AliveAt(pre.grid, c[1], c[2]) /\ AliveAt(grid, c[1], c[2])
    /\ \E c \in Cells(pre.grid) :
          ~AliveAt(pre.grid, c[1], c[2]) /\ AliveAt(grid, c[1], c[2])

\* C2: update() called while paused changes neither grid nor the paused flag
\* (so any number of such calls in a row leave the Game as it was).
C2_PausedUpdateIsNoOp ==
    (last = "update" /\ pre.paused) =>
        /\ grid = pre.grid
        /\ simulation_grid = pre.simulation_grid
        /\ paused = pre.paused

\* update() has run while paused on a grid that a running update() would have
\* changed, with a scratch grid that differs from the grid
C2_Witness ==
    /\ last = "update"
    /\ pre.paused
    /\ paused
    /\ simulation_grid.array # grid.array
    /\ \E c \in Cells(grid) : AliveAt(grid, c[1], c[2]) # ClassicRule(grid, c[1], c[2])

VerticalBlinker == {<<1, 0>>, <<1, 1>>, <<1, 2>>}
HorizontalBlinker == {<<0, 1>>, <<1, 1>>, <<2, 1>>}

\* C10: on a 3 x 3 grid that starts with exactly (1,0), (1,1), (1,2) alive, the
\* alive cells are exactly (0,1), (1,1), (2,1) after every odd number of
\* generations and exactly (1,0), (1,1), (1,2) after every even number.
C10_BlinkerPeriodTwo ==
    (start.width = 3 /\ start.height = 3 /\ AliveSet(start) = VerticalBlinker) =>
        AliveSet(grid) = IF gen % 2 = 1 THEN HorizontalBlinker ELSE VerticalBlinker

\* the blinker after its second generation
C10_Witness ==
    /\ start.width = 3 /\ start.height = 3
    /\ AliveSet(start) = VerticalBlinker
    /\ gen = 2
    /\ last = "update"
    /\ AliveSet(pre.grid) = HorizontalBlinker
    /\ AliveSet(grid) = VerticalBlinker

----------------------------------------------------------------------------
(* Claims, SpecPass *)

\* C3: while update() evaluates the cells the grid is not modified and stays
\* the grid update() was entered with; each step writes the scratch cell at cur
\* with the rule's value on that grid; the grid changes only in the commit
\* that follows the last cell, where it takes the scratch grid's content.
C3_DoubleBuffered ==
    [][ /\ (pc = "loop" /\ CellsLeft) =>
              /\ grid = pre.grid
              /\ grid' = grid
              /\ AliveAt(simulation_grid', cur[1], cur[2])
                     = ClassicRule(pre.grid, cur[1], cur[2])
        /\ (grid' # grid) =>
              /\ pc = "loop" /\ ~CellsLeft /\ pc' = "idle"
              /\ grid'.array = simulation_grid.array
      ]_vars

\* in the middle of a pass: cell (0,0) is already evaluated and changes, and
\* cell (1,0) would get another value if it saw the new value of (0,0)
C3_Witness ==
    /\ pc = "loop"
    /\ cur = <<1, 0>>
    /\ CellsLeft
    /\ AliveAt(simulation_grid, 0, 0) = ClassicRule(grid, 0, 0)
    /\ AliveAt(simulation_grid, 0, 0) # AliveAt(grid, 0, 0)
    /\ ClassicRule(grid, 1, 0)
          # ClassicRule([grid EXCEPT !.array[1] = AliveAt(simulation_grid, 0, 0)], 1, 0)

\* the cell c is evaluated before the cell at cur in update()'s loops
EvaluatedBefore(c, at) == c[2] < at[2] \/ (c[2] = at[2] /\ c[1] < at[1])

\* the game g with the content b in its scratch grid
WithScratch(g, b) == [g EXCEPT !.simulation_grid.array = b]

\* scratch contents to compare with: all dead, all alive, and the opposite of
\* what g holds in every cell; g itself ranges over every content in SpecPass
OtherScratch(g) ==
    {[i \in 1..Len(g.grid.array) |-> FALSE],
     [i \in 1..Len(g.grid.array) |-> TRUE],
     [i \in 1..Len(g.grid.array) |-> ~g.simulation_grid.array[i]]}

\* C19: the grid after an update() made while not paused depends on the grid
\* before it alone: whatever the scratch grid held before, the result is the
\* same, since every scratch cell is overwritten with the rule's value on the
\* old grid before the commit and no old scratch value gets into the grid.
C19_ScratchNeverLeaks ==
    /\ pc = "loop" =>
          \A c \in Cells(grid) :
              EvaluatedBefore(c, cur) =>
                  AliveAt(simulation_grid, c[1], c[2]) = ClassicRule(pre.grid, c[1], c[2])
    /\ (pc = "idle" /\ last = "update" /\ ~pre.paused) =>
          /\ \A b \in OtherScratch(pre) :
                update(WithScratch(pre, b)).grid = grid
          /\ \A c \in Cells(grid) :
                AliveAt(grid, c[1], c[2]) = ClassicRule(pre.grid, c[1], c[2])
          /\ simulation_grid.array = grid.array

\* an update() is over whose scratch grid held, before it, a live cell where
\* the new grid has a dead one and a dead cell where the new grid has a live one
C19_Witness ==
    /\ pc = "idle"
    /\ last = "update"
    /\ ~pre.paused
    /\ \E c \in Cells(grid) :
          AliveAt(pre.simulation_grid, c[1], c[2]) /\ ~AliveAt(grid, c[1], c[2])
    /\ \E c \in Cells(grid) :
          ~AliveAt(pre.simulation_grid, c[1], c[2]) /\ AliveAt(grid, c[1], c[2])

----------------------------------------------------------------------------
(* Claims, Spec *)

InBounds(g, x, y) == x < g.width /\ y < g.height

\* C4: toggle_cell(x, y) with (x, y) inside the grid does not panic, flips the
\* cell (x, y) of the grid, and leaves the other cells of the grid, the scratch
\* grid and the paused flag as they were, paused or not.
C4_ToggleFlipsOneCell ==
    [][ \A x \in Coords, y \in Coords :
          (InBounds(grid, x, y) /\ ToggleCell(x, y)) =>
              /\ ~panicked'
              /\ paused' = paused
              /\ simulation_grid' = simulation_grid
              /\ SameShape(grid', grid)
              /\ \A c \in Cells(grid) :
                    AliveAt(grid', c[1], c[2]) =
                        IF c = <<x, y>> THEN ~AliveAt(grid, c[1], c[2])
                                        ELSE AliveAt(grid, c[1], c[2])
      ]_vars

\* a cell was toggled while the game was paused
C4_Witness ==
    /\ last = "toggle_cell"
    /\ ~panicked
    /\ paused
    /\ grid.width = 3 /\ grid.height = 2
    /\ AliveSet(grid) = {<<2, 0>>, <<1, 1>>}
    /\ AliveSet(simulation_grid) = {}

\* C5: for every (x, y) inside the grid and every value v, get(x, y) after
\* set(x, y, v) is v and get of every other cell inside the grid is what it
\* was; two different cells inside the grid never have the same index.
C5_GetAfterSet ==
    \A c \in Cells(grid) : \A v \in BOOLEAN :
        LET g2 == set(grid, c[1], c[2], v)
        IN  /\ in_array(grid, c[1], c[2])
            /\ get(g2, c[1], c[2]) = v
            /\ \A d \in Cells(grid) \ {c} :
                  /\ get(g2, d[1], d[2]) = get(grid, d[1], d[2])
                  /\ get_index(grid, d[1], d[2]) # get_index(grid, c[1], c[2])

\* get and set have run on a grid that is not square and holds alive cells in
\* both rows
C5_Witness ==
    /\ last = "toggle_cell"
    /\ ~panicked
    /\ grid.width = 2 /\ grid.height = 3
    /\ get(grid, 1, 0) /\ get(grid, 0, 1) /\ get(grid, 1, 2)
    /\ ~get(grid, 0, 0) /\ ~get(grid, 1, 1) /\ ~get(grid, 0, 2)

Flip(game) == [game EXCEPT !.paused = ~game.paused]

\* C6: paused is a boolean; process_event of a Space key press negates paused
\* and changes nothing else; process_event of any other event, toggle_cell and
\* update() leave paused as it is; what process_event and toggle_cell do to
\* the grids is the same paused or not; and a step that changes paused is a
\* process_event step that leaves both grids alone.
C6_PauseControl ==
    /\ [](/\ paused \in BOOLEAN
          /\ \A event \in Events :
                /\ IF event = KeyPressed("Space")
                   THEN process_event(Game, event) = Flip(Game)
                   ELSE process_event(Game, event).paused = paused
                /\ process_event(Flip(Game), event) = Flip(process_event(Game, event))
          /\ \A x \in Coords, y \in Coords :
                LET position == [x |-> x, y |-> y]
                IN  /\ toggle_cell(Game, position).paused = paused
                    /\ toggle_cell(Flip(Game), position) = Flip(toggle_cell(Game, position))
          /\ update(Game).paused = paused)
    /\ [][ paused' # paused =>
              /\ last' = "process_event"
              /\ grid' = grid
              /\ simulation_grid' = simulation_grid ]_vars

\* the game was paused by a key press, and update() is the operation whose
\* effect differs between the two states
C6_Witness ==
    /\ last = "process_event"
    /\ paused
    /\ AliveSet(grid) # {}
    /\ update(Flip(Game)) # Flip(update(Game))

\* C7 (as claimed): toggle_cell(x, y) with x >= width or y >= height panics and
\* leaves the grid as it was.
C7_OutOfBoundsPanics ==
    [][ \A x \in Coords, y \in Coords :
          (~InBounds(grid, x, y) /\ ToggleCell(x, y)) =>
              /\ panicked'
              /\ grid' = grid
      ]_vars

----------------------------------------------------------------------------
(* Claims, SpecMain *)

\* C8 (as claimed): the cell that process_event, called by main for a mouse
\* press, hands to toggle_cell is inside the grid, wherever the press is.
C8_MouseCellInBounds ==
    [][ \A x \in Pixels, y \in Pixels :
          MainPollEvent(MouseButtonPressed(x, y)) =>
              LET position == get_cell_below_position(map_pixel_to_coords(x, y))
              IN  InBounds(grid, position.x, position.y)
      ]_vars

\* C9 (as claimed): once an iteration of main's loop is past its tick check,
\* the number of update() calls made equals the number of whole tick intervals
\* in the time the clock has measured.
C9_OneUpdatePerTick ==
    pc \in {"draw", "restart"} => updates = total_elapsed \div tick_duration

----------------------------------------------------------------------------
(* SpecPattern: update() and the pause key on a grid of up to MaxSide x    *)
(* MaxSide cells that holds one pattern, a 2 x 2 block or a glider, placed *)
(* anywhere it fits (the cells are set with toggle_cell before the run)    *)

\* largest width and height of the grids of SpecPattern
MaxSide == 6

\* the 2 x 2 block with its upper left cell at (x, y)
Block(x, y) == {<<x, y>>, <<x + 1, y>>, <<x, y + 1>>, <<x + 1, y + 1>>}

\* the glider that travels towards larger x and y, its 3 x 3 box at (x, y)
Glider(x, y) ==
    {<<x + 1, y>>, <<x + 2, y + 1>>, <<x, y + 2>>, <<x + 1, y + 2>>, <<x + 2, y + 2>>}

Patterns(width, height) ==
    {Block(c[1], c[2]) : c \in (0..(width - 2)) \X (0..(height - 2))}
    \cup {Glider(c[1], c[2]) : c \in (0..(width - 3)) \X (0..(height - 3))}

\* toggle_cell on each cell of the set, in any order
RECURSIVE toggle_cells(_, _)
toggle_cells(game, cells) ==
    IF cells = {} THEN game
    ELSE LET c == CHOOSE c \in cells : TRUE
         IN  toggle_cells(toggle_cell(game, [x |-> c[1], y |-> c[2]]), cells \ {c})

InitPattern ==
    /\ \E width \in 1..MaxSide, height \in 1..MaxSide :
       \E cells \in Patterns(width, height) : \E p \in BOOLEAN :
          IsGame([toggle_cells(Game_new(width, height), cells) EXCEPT !.paused = p])
    /\ InitRest

NextPattern == RuleUpdate \/ RulePause

SpecPattern == InitPattern /\ [][NextPattern]_vars

----------------------------------------------------------------------------
(* Claims, SpecPattern *)

\* the run started from a grid whose alive cells are exactly one 2 x 2 block
StartsAsBlock ==
    \E c \in Cells(start) : AliveSet(start) = Block(c[1], c[2])

\* C11: a grid whose alive cells are exactly one 2 x 2 block, anywhere in the
\* grid, has exactly the same alive cells after any number of update() calls.
C11_BlockIsStillLife ==
    StartsAsBlock => AliveSet(grid) = AliveSet(start)

\* a block in the middle of a 4 x 4 grid, after three generations
C11_Witness ==
    /\ start.width = 4 /\ start.height = 4
    /\ AliveSet(start) = Block(1, 1)
    /\ gen = 3
    /\ last = "update"
    /\ ~pre.paused
    /\ AliveSet(grid) = Block(1, 1)

\* the glider at (x, y) and the same glider one cell further in x and in y
\* both lie inside the grid
GliderFits(g, x, y) == x + 3 < g.width /\ y + 3 < g.height

\* C12: a glider on an otherwise empty grid, with room for its box one cell
\* further in x and in y, is after 4 generations exactly the same 5 cells
\* moved by (+1, +1).
C12_GliderMoves ==
    \A c \in Cells(start) :
        (AliveSet(start) = Glider(c[1], c[2]) /\ GliderFits(start, c[1], c[2]) /\ gen = 4)
            => AliveSet(grid) = Glider(c[1] + 1, c[2] + 1)

\* a glider in the middle of a 6 x 6 grid after its fourth generation
C12_Witness ==
    /\ start.width = 6 /\ start.height = 6
    /\ AliveSet(start) = Glider(1, 1)
    /\ gen = 4
    /\ last = "update"
    /\ AliveSet(grid) = Glider(2, 2)
    /\ Cardinality(AliveSet(pre.grid)) = 5

----------------------------------------------------------------------------
(* Claims, SpecRule: the boundary *)

OnColumnEdge(g, x) == x = 0 \/ x = g.width - 1
OnRowEdge(g, y) == y = 0 \/ y = g.height - 1

\* C13: get_neighbors_count is the number of alive cells among the adjacent
\* cells inside the grid: at most 3 for a corner cell, at most 5 for another
\* edge cell, at most 8 for an interior cell; and an N x N grid that starts
\* with (0,0) as its only alive cell has no alive cell after a running
\* update().
C13_NoPhantomNeighbours ==
    /\ \A c \in Cells(grid) :
          LET n == get_neighbors_count(Game, c[1], c[2])
          IN  /\ n = AliveNeighbours(grid, c[1], c[2])
              /\ n <= 8
              /\ (OnColumnEdge(grid, c[1]) \/ OnRowEdge(grid, c[2])) => n <= 5
              /\ (OnColumnEdge(grid, c[1]) /\ OnRowEdge(grid, c[2])) => n <= 3
    /\ (start.width = start.height /\ AliveSet(start) = {<<0, 0>>} /\ gen >= 1)
          => AliveSet(grid) = {}

\* the lone corner cell of a 3 x 3 grid has died, and the grid before that
\* update() had counts of 0 for the corner and 1 for the centre
C13_Witness ==
    /\ start.width = 3 /\ start.height = 3
    /\ AliveSet(start) = {<<0, 0>>}
    /\ gen = 1
    /\ last = "update"
    /\ get_neighbors_count(pre, 0, 0) = 0
    /\ get_neighbors_count(pre, 1, 1) = 1
    /\ get_neighbors_count(pre, 2, 2) = 0
    /\ AliveSet(grid) = {}

----------------------------------------------------------------------------
(* Claims, SpecMain: the order of an iteration *)

\* C14: an iteration of main's loop runs poll loop, tick check, draw, clock
\* restart in this order; the Game changes only in the poll loop (events) and
\* in the tick check (update()); the tick check is entered from the poll loop
\* by a step that handles no event; an update() made there while not paused
\* leaves exactly the rule's result on the grid as the events left it; and
\* draw changes nothing, so it shows that result.
C14_EventsThenUpdateThenDraw ==
    [][ /\ pc = "while" => pc' \in {"poll", "exit"}
        /\ pc = "poll" => pc' \in {"poll", "tick"}
        /\ pc = "tick" => pc' = "draw"
        /\ pc = "draw" => pc' = "restart" /\ UNCHANGED gameVars
        /\ pc = "restart" => pc' = "while"
        /\ pc' = "tick" => pc = "poll" /\ UNCHANGED gameVars
        /\ gameVars' # gameVars =>
              \/ pc = "poll" /\ pc' = "poll" /\ updates' = updates
              \/ /\ pc = "tick"
                 /\ updates' = updates + 1
                 /\ ~paused
                 /\ SameShape(grid', grid)
                 /\ \A c \in Cells(grid) :
                       AliveAt(grid', c[1], c[2]) <=> ClassicRule(grid, c[1], c[2])
      ]_vars

\* three cells were toggled and the first update() of the run made the fourth
\* cell of the block alive; the loop is about to draw
C14_Witness ==
    /\ pc = "draw"
    /\ last = "update"
    /\ updates = 1
    /\ ~paused
    /\ AliveSet(grid) = Block(0, 0)

----------------------------------------------------------------------------
(* Claims, Spec: the shape of the grids *)

\* C15: after Game::new(W, H) and any calls of toggle_cell, process_event and
\* update(), both grids have width W and height H, and the array of each has
\* W * H entries.
C15_DimensionsFixed ==
    /\ grid.width = start.width /\ grid.height = start.height
    /\ simulation_grid.width = start.width
    /\ simulation_grid.height = start.height
    /\ Len(grid.array) = start.width * start.height
    /\ Len(simulation_grid.array) = start.width * start.height
    /\ DOMAIN grid.array = 1..(start.width * start.height)
    /\ DOMAIN simulation_grid.array = 1..(start.width * start.height)

\* a 3 x 2 game after toggles, a pause and an update() that committed
C15_Witness ==
    /\ start.width = 3 /\ start.height = 2
    /\ last = "update"
    /\ paused
    /\ AliveSet(grid) = {<<2, 0>>, <<2, 1>>}
    /\ AliveSet(simulation_grid) = Block(1, 0)

----------------------------------------------------------------------------
(* Claims, Spec: the scratch grid after update() *)

SameArrays(game) == game.grid.array = game.simulation_grid.array

\* the event is a mouse press on a cell inside the grid
TogglesInBounds(g, event) ==
    /\ event.type = "MouseButtonPressed"
    /\ LET position == get_cell_below_position(map_pixel_to_coords(event.x, event.y))
       IN  InBounds(g, position.x, position.y)

\* C16 (as claimed): after an update() made while not paused the grid equals
\* the scratch grid cell for cell, and every operation on that state other
\* than a toggle_cell of a cell inside the grid leaves the two equal.
C16_GridEqualsScratch ==
    (last = "update" /\ ~paused) =>
        /\ SameArrays(Game)
        /\ SameArrays(update(Game))
        /\ \A x \in Coords, y \in Coords :
              ~InBounds(grid, x, y) => SameArrays(toggle_cell(Game, [x |-> x, y |-> y]))
        /\ \A event \in Events :
              ~TogglesInBounds(grid, event) => SameArrays(process_event(Game, event))

----------------------------------------------------------------------------
(* Claims, SpecMain: the end of the program *)

\* main's loop is over: the while condition failed, or a panic aborted main
LoopEnded == pc = "exit" \/ panicked

\* C17 (as claimed): the loop ends only after a Closed event has closed the
\* window; there is no other way out.
C17_OnlyCloseEnds ==
    LoopEnded => ~window_open

----------------------------------------------------------------------------
(* Claims, SpecMain: the tick accumulator *)

\* one step of main seen from the accumulator: update() is called only by
\* the tick check and only with more than a tick accumulated, each call takes
\* exactly one tick off the accumulator whether or not the game is paused,
\* a paused call leaves the grid alone, and only the clock adds time
TickStep ==
    /\ updates' # updates =>
          /\ pc = "tick"
          /\ elapsed_since_last_tick > tick_duration
          /\ updates' = updates + 1
          /\ elapsed_since_last_tick' = elapsed_since_last_tick - tick_duration
          /\ paused => grid' = grid
    /\ (pc = "tick" /\ elapsed_since_last_tick > tick_duration) =>
          updates' = updates + 1
    /\ (pc = "tick" /\ elapsed_since_last_tick <= tick_duration) =>
          /\ updates' = updates
          /\ elapsed_since_last_tick' = elapsed_since_last_tick
          /\ grid' = grid
    /\ elapsed_since_last_tick' > elapsed_since_last_tick => pc = "restart"

\* what the accumulator holds: the time of all frames so far less one tick
\* for every update() called, paused or not; and no more calls than frames
TickBalance ==
    /\ elapsed_since_last_tick = total_elapsed - tick_duration * updates
    /\ elapsed_since_last_tick >= 0
    /\ updates <= frames

\* C18: update() is called at most once per iteration of main's loop and only
\* with strictly more than one tick accumulated; every call takes one tick off
\* the accumulator, paused or not, so the ticks that pass while the game is
\* paused are used up and are not made up for after it is resumed.
C18_TicksConsumedWhilePaused ==
    [](TickBalance) /\ [][TickStep]_vars

\* two ticks were used up, the last one by an update() of the paused game
C18_Witness ==
    /\ pc = "draw"
    /\ last = "update"
    /\ paused
    /\ updates = 2
    /\ elapsed_since_last_tick <= tick_duration

----------------------------------------------------------------------------
(* Claims, SpecRule: the accesses of update() and draw() *)

\* the access to the cell c of the grid g is inside the grid
AccessInBounds(g, c) ==
    /\ 0 <= c[1] /\ c[1] < g.width
    /\ 0 <= c[2] /\ c[2] < g.height

\* update() and draw() called on game stay inside its grids and evaluate no
\* subtraction below zero; what get_neighbors_count reads is what it counts
SafeAccesses(game) ==
    /\ \A c \in update_gets(game) : AccessInBounds(game.grid, c)
    /\ \A c \in update_sets(game) : AccessInBounds(game.simulation_grid, c)
    /\ \A c \in draw_gets(game) : AccessInBounds(game.grid, c)
    /\ \A d \in update_subs(game) : d >= 0
    /\ \A c \in update_cells(game) :
          get_neighbors_count(game, c[1], c[2]) =
              Cardinality({n \in get_neighbors_count_gets(game, c[1], c[2]) :
                              get(game.grid, n[1], n[2])})

\* C20: update() and draw() make no access outside the grid and evaluate no
\* x - 1, y - 1, width - 1 or height - 1 below zero, for every grid size, the
\* sizes with a width or a height of 0 or 1 included: every get and set they
\* make has 0 <= x < width and 0 <= y < height.
C20_AccessesInBounds ==
    /\ SafeAccesses(Game)
    /\ last = "update" => SafeAccesses(pre)

\* an update() has run on a 1 x 3 grid with its middle cell alive, where every
\* cell is on the left and the right edge at once; games of width 0 and of
\* height 0 are among the states too
C20_Witness ==
    /\ last = "update"
    /\ ~pre.paused
    /\ pre.grid.width = 1 /\ pre.grid.height = 3
    /\ AliveSet(pre.grid) = {<<0, 1>>}
    /\ get_neighbors_count_gets(pre, 0, 1) = {<<0, 0>>, <<0, 2>>}
    /\ update_subs(pre) = {0, 2, 1}

====
